---- MODULE Spec2Model ----
(***************************************************************************)
(* Model of scripts/extract_transcripts.py: the identifier resolver        *)
(* (extract_video_id), the input reader (read_video_ids), the three        *)
(* retrieval strategies, the fallback chain (fetch_transcript) and the     *)
(* batch driver (run) with its two writers (save_transcript, save_error).  *)
(*                                                                         *)
(* Text is modelled as a sequence of one-character strings, so that        *)
(* stripping, URL splitting and query parsing are computed on characters.  *)
(***************************************************************************)
EXTENDS Integers, Sequences, FiniteSets, TLC

(***************************************************************************)
(* Bounds of the model.                                                    *)
(***************************************************************************)
\* the longest input file, in lines
MaxLines == 2
\* how many times the batch driver is run on the same output directory
MaxRuns == 2
\* the most caption tracks the downloader's metadata lists for a video
MaxTracks == 2

(***************************************************************************)
(* Characters and text helpers (Python str methods).                       *)
(***************************************************************************)
Letters == {"a", "b", "c", "d", "e", "f", "g", "h", "i", "j", "k", "l", "m",
            "n", "o", "p", "q", "r", "s", "t", "u", "v", "w", "x", "y", "z",
            "B", "D", "E", "F", "H", "O", "P", "S", "T", "U", "Y"}
Digits == {"1", "2", "5"}

\* str.isalnum() of one character
IsAlnum(ch) == ch \in Letters \cup Digits

\* str.lower() of one character
LowerChar(ch) ==
    CASE ch = "B" -> "b" [] ch = "D" -> "d" [] ch = "E" -> "e"
      [] ch = "F" -> "f" [] ch = "H" -> "h" [] ch = "O" -> "o"
      [] ch = "P" -> "p" [] ch = "S" -> "s" [] ch = "T" -> "t"
      [] ch = "U" -> "u" [] ch = "Y" -> "y"
      [] OTHER -> ch

Lower(s) == [i \in 1..Len(s) |-> LowerChar(s[i])]

\* n copies of the character ch
Rep(ch, n) == [i \in 1..n |-> ch]

\* s[from:] (1-based, from may exceed the length)
DropTo(s, from) == IF from > Len(s) THEN << >> ELSE SubSeq(s, from, Len(s))

\* s[:upto] (1-based, inclusive)
TakeTo(s, upto) == IF upto < 1 THEN << >> ELSE SubSeq(s, 1, upto)

\* s.find(ch) as a 1-based position from position from, 0 when absent
FindFrom(s, chars, from) ==
    LET hits == {i \in from..Len(s) : s[i] \in chars}
    IN IF hits = {} THEN 0 ELSE CHOOSE i \in hits : \A j \in hits : i <= j

\* s.rfind(ch) as a 1-based position, 0 when absent
RFind(s, ch) ==
    LET hits == {i \in 1..Len(s) : s[i] = ch}
    IN IF hits = {} THEN 0 ELSE CHOOSE i \in hits : \A j \in hits : i >= j

\* s.startswith(prefix)
StartsWith(s, prefix) ==
    Len(s) >= Len(prefix) /\ SubSeq(s, 1, Len(prefix)) = prefix

\* sub in s
Contains(s, sub) ==
    \E i \in 1..(Len(s) - Len(sub) + 1) : SubSeq(s, i, i + Len(sub) - 1) = sub

\* s.lstrip(chars)
LStrip(s, chars) ==
    LET keep == {i \in 1..Len(s) : s[i] \notin chars}
    IN IF keep = {} THEN << >>
       ELSE DropTo(s, CHOOSE i \in keep : \A j \in keep : i <= j)

\* s.rstrip(chars)
RStrip(s, chars) ==
    LET keep == {i \in 1..Len(s) : s[i] \notin chars}
    IN IF keep = {} THEN << >>
       ELSE TakeTo(s, CHOOSE i \in keep : \A j \in keep : i >= j)

Whitespace == {" "}

\* s.strip()
Strip(s) == RStrip(LStrip(s, Whitespace), Whitespace)

(***************************************************************************)
(* urllib.parse as used by extract_video_id.                               *)
(***************************************************************************)
SchemeChars == Letters \cup Digits \cup {"+", "-", "."}

\* urlsplit: [scheme, netloc, path, query, fragment] of a URL
urlparse(url) ==
    LET colon == FindFrom(url, {":"}, 1)
        hasScheme == /\ colon > 1
                     /\ url[1] \in Letters
                     /\ \A i \in 1..(colon - 1) : url[i] \in SchemeChars
        scheme == IF hasScheme THEN Lower(TakeTo(url, colon - 1)) ELSE << >>
        rest1 == IF hasScheme THEN DropTo(url, colon + 1) ELSE url
        hasNetloc == StartsWith(rest1, <<"/", "/">>)
        delim == FindFrom(rest1, {"/", "?", "#"}, 3)
        netloc == IF ~hasNetloc THEN << >>
                  ELSE IF delim = 0 THEN DropTo(rest1, 3)
                  ELSE SubSeq(rest1, 3, delim - 1)
        rest2 == IF ~hasNetloc THEN rest1
                 ELSE IF delim = 0 THEN << >> ELSE DropTo(rest1, delim)
        hash == FindFrom(rest2, {"#"}, 1)
        fragment == IF hash = 0 THEN << >> ELSE DropTo(rest2, hash + 1)
        rest3 == IF hash = 0 THEN rest2 ELSE TakeTo(rest2, hash - 1)
        qmark == FindFrom(rest3, {"?"}, 1)
        query == IF qmark = 0 THEN << >> ELSE DropTo(rest3, qmark + 1)
        path == IF qmark = 0 THEN rest3 ELSE TakeTo(rest3, qmark - 1)
    IN [scheme |-> scheme, netloc |-> netloc, path |-> path,
        query |-> query, fragment |-> fragment]

\* ParseResult.hostname: the netloc without user info and port, lowercased;
\* the empty sequence stands for None (the code only tests its truth value)
hostname(parsed) ==
    LET at == RFind(parsed.netloc, "@")
        hostinfo == DropTo(parsed.netloc, at + 1)
        colon == FindFrom(hostinfo, {":"}, 1)
        host == IF colon = 0 THEN hostinfo ELSE TakeTo(hostinfo, colon - 1)
    IN Lower(host)

\* the percent escapes the model decodes
PercentTable == <<"2", "D">> :> "-" @@ <<"5", "F">> :> "_"

\* urllib.parse.unquote after '+' has been replaced by ' '
RECURSIVE unquote(_)
unquote(s) ==
    IF s = << >> THEN << >>
    ELSE IF /\ s[1] = "%"
            /\ Len(s) >= 3
            /\ <<s[2], s[3]>> \in DOMAIN PercentTable
         THEN <<PercentTable[<<s[2], s[3]>>]>> \o unquote(DropTo(s, 4))
         ELSE <<IF s[1] = "+" THEN " " ELSE s[1]>> \o unquote(Tail(s))

\* s.split(ch): the fields of s between the occurrences of ch
RECURSIVE Split(_, _)
Split(s, ch) ==
    LET i == FindFrom(s, {ch}, 1)
    IN IF i = 0 THEN <<s>>
       ELSE <<TakeTo(s, i - 1)>> \o Split(DropTo(s, i + 1), ch)

\* parse_qsl: the (name, value) pairs of a query string in order; fields
\* without '=' and fields with a blank value are dropped
RECURSIVE QueryPairs(_)
QueryPairs(fields) ==
    IF fields = << >> THEN << >>
    ELSE LET f == Head(fields)
             eq == FindFrom(f, {"="}, 1)
             name == unquote(TakeTo(f, eq - 1))
             value == unquote(DropTo(f, eq + 1))
         IN IF eq = 0 \/ DropTo(f, eq + 1) = << >>
            THEN QueryPairs(Tail(fields))
            ELSE <<[name |-> name, value |-> value]>> \o QueryPairs(Tail(fields))

\* parse_qs(query)[key]: the values of key in order of appearance
parse_qs(query, key) ==
    LET pairs == QueryPairs(Split(query, "&"))
    IN SelectSeq(pairs, LAMBDA p : p.name = key)

(***************************************************************************)
(* extract_video_id: a result is [ok |-> TRUE, id |-> ...] or              *)
(* [ok |-> FALSE, error |-> ...] for a raised ValueError.                  *)
(***************************************************************************)
IdChars == Letters \cup Digits \cup {"-", "_"}

Resolved(id) == [ok |-> TRUE, id |-> id, error |-> ""]
ValueError(msg) == [ok |-> FALSE, id |-> << >>, error |-> msg]

\* extract_video_id with the upper end of the length range off by one
extract_video_id_upto_20(line) ==
    LET raw == Strip(line)
        parsed == urlparse(raw)
        host == hostname(parsed)
        video_id == LStrip(parsed.path, {"/"})
        v == parse_qs(parsed.query, <<"v">>)
    IN IF raw = << >> THEN ValueError("empty")
       ELSE IF (\A i \in 1..Len(raw) : IsAlnum(raw[i]) \/ raw[i] \in {"-", "_"})
               /\ Len(raw) \in 10..20
       THEN Resolved(raw)
       ELSE IF host = <<"y", "o", "u", "t", "u", ".", "b", "e">>
       THEN IF video_id = << >> THEN ValueError("short") ELSE Resolved(video_id)
       ELSE IF host # << >> /\ Contains(host, <<"y", "o", "u", "t", "u", "b", "e">>)
               /\ v # << >>
       THEN Resolved(v[1].value)
       ELSE ValueError("unrecognised")

extract_video_id(line) ==
    LET raw == Strip(line)
        parsed == urlparse(raw)
        host == hostname(parsed)
        video_id == LStrip(parsed.path, {"/"})
        v == parse_qs(parsed.query, <<"v">>)
    IN IF raw = << >> THEN ValueError("empty")
       ELSE IF (\A i \in 1..Len(raw) : IsAlnum(raw[i]) \/ raw[i] \in {"-", "_"})
               /\ Len(raw) \in 10..19
       THEN Resolved(raw)
       ELSE IF host = <<"y", "o", "u", "t", "u", ".", "b", "e">>
       THEN IF video_id = << >> THEN ValueError("short") ELSE Resolved(video_id)
       ELSE IF host # << >> /\ Contains(host, <<"y", "o", "u", "t", "u", "b", "e">>)
               /\ v # << >>
       THEN Resolved(v[1].value)
       ELSE ValueError("unrecognised")

(***************************************************************************)
(* Results of a call: a returned value or a raised exception.  A text is a *)
(* sequence of lines; the empty sequence stands for both '' and None,      *)
(* which the code never tells apart (it tests truth values).               *)
(***************************************************************************)
Return(value) == [kind |-> "return", value |-> value, type |-> "", msg |-> ""]
Raise(type, msg) == [kind |-> "raise", value |-> << >>, type |-> type, msg |-> msg]

\* the classes an exception of a given type is an instance of
Bases(type) ==
    CASE type = "TranscriptNotAvailableError" ->
             {"TranscriptNotAvailableError", "TranscriptDownloadError",
              "RuntimeError", "Exception"}
      [] type = "TranscriptDownloadError" ->
             {"TranscriptDownloadError", "RuntimeError", "Exception"}
      [] OTHER -> {type, "Exception"}

isinstance(type, cls) == cls \in Bases(type)

(***************************************************************************)
(* json3 captions: a payload is blank, not JSON, or a document whose       *)
(* events each hold the texts of their segments (already stripped, each a  *)
(* sequence of characters; << >> for a segment without text).              *)
(***************************************************************************)
RECURSIVE Flatten(_)
Flatten(seqs) == IF seqs = << >> THEN << >> ELSE Head(seqs) \o Flatten(Tail(seqs))

\* the loop over events and segs: the non-empty segment texts in event order
json3_lines(events) == SelectSeq(Flatten(events), LAMBDA text : text # << >>)

BlankPayload == [form |-> "blank", events |-> << >>]
NotJsonPayload == [form |-> "notjson", events |-> << >>]
Json3(events) == [form |-> "json3", events |-> events]

Json3Payloads ==
    {BlankPayload, NotJsonPayload, Json3(<< >>), Json3(<< << << >> >> >>),
     Json3(<< << <<"h", "i">> >>, << << >>, <<"y", "o", "u">> >> >>),
     Json3(<< << <<"y", "o">> >> >>)}

\* what urlopen(...).read() does: a payload, an HTTPError or another OSError
Body(payload) == [kind |-> "body", code |-> 200, payload |-> payload]
HTTPError(code) == [kind |-> "HTTPError", code |-> code, payload |-> BlankPayload]
OSError == [kind |-> "OSError", code |-> 0, payload |-> BlankPayload]

TimedtextResponses ==
    {Body(p) : p \in Json3Payloads} \cup {HTTPError(c) : c \in {403, 404, 500}}
        \cup {OSError}

\* _download_json_transcript with every HTTP error taken for "this language
\* is unavailable", whatever its code
download_any_http_error_is_none(response) ==
    IF response.kind = "HTTPError"
    THEN Return(<< >>)
    ELSE IF response.kind = "OSError"
    THEN Raise("TranscriptDownloadError", "Network error while downloading transcript")
    ELSE IF response.payload.form = "blank"
    THEN Return(<< >>)
    ELSE IF response.payload.form = "notjson"
    THEN Raise("JSONDecodeError", "Expecting value")
    ELSE Return(json3_lines(response.payload.events))

_download_json_transcript(response) ==
    IF response.kind = "HTTPError"
    THEN IF response.code \in {404, 403}
         THEN Return(<< >>)
         ELSE Raise("TranscriptDownloadError", "HTTP error while downloading transcript")
    ELSE IF response.kind = "OSError"
    THEN Raise("TranscriptDownloadError", "Network error while downloading transcript")
    ELSE IF response.payload.form = "blank"
    THEN Return(<< >>)
    ELSE IF response.payload.form = "notjson"
    THEN Raise("JSONDecodeError", "Expecting value")
    ELSE Return(json3_lines(response.payload.events))

LANGUAGE_CANDIDATES == <<"en", "en-US", "en-GB">>

\* _fetch_with_timedtext from language number k on: the result of the
\* strategy and the languages requested, in order
RECURSIVE TimedtextFrom(_, _)
TimedtextFrom(responses, k) ==
    IF k > Len(LANGUAGE_CANDIDATES)
    THEN [result |-> Raise("TranscriptNotAvailableError",
                           "Transcript not available in languages"),
          requests |-> << >>]
    ELSE LET r == _download_json_transcript(responses[k])
             rest == TimedtextFrom(responses, k + 1)
         IN IF r.kind = "raise" \/ r.value # << >>
            THEN [result |-> r, requests |-> <<LANGUAGE_CANDIDATES[k]>>]
            ELSE [result |-> rest.result,
                  requests |-> <<LANGUAGE_CANDIDATES[k]>> \o rest.requests]

_fetch_with_timedtext(responses) == TimedtextFrom(responses, 1)

(***************************************************************************)
(* Strategy 2: the transcript library either is not installed, raises one  *)
(* of its exceptions, or returns segments (their texts, stripped).         *)
(***************************************************************************)
ApiBehaviours ==
    {[kind |-> k, segments |-> << >>] :
        k \in {"ImportError", "NoTranscriptFound", "TranscriptsDisabled",
               "VideoUnavailable", "Exception"}}
    \cup {[kind |-> "segments", segments |-> g] :
            g \in {<< >>, << << >> >>, << <<"g", "o">>, << >>, <<"o", "n">> >>}}

_fetch_with_youtube_transcript_api(b) ==
    IF b.kind = "ImportError"
    THEN Raise("TranscriptDownloadError", "youtube-transcript-api is not installed")
    ELSE IF b.kind \in {"NoTranscriptFound", "TranscriptsDisabled"}
    THEN Raise("TranscriptNotAvailableError", b.kind)
    ELSE IF b.kind = "VideoUnavailable"
    THEN Raise("TranscriptDownloadError", "Video unavailable")
    ELSE IF b.kind # "segments"
    THEN Raise("TranscriptDownloadError", "youtube-transcript-api failed")
    ELSE LET transcript == SelectSeq(b.segments, LAMBDA text : text # << >>)
         IN IF transcript = << >>
            THEN Raise("TranscriptNotAvailableError",
                       "youtube-transcript-api returned an empty transcript")
            ELSE Return(transcript)

(***************************************************************************)
(* Strategy 3: the downloader lists caption tracks; each track has a       *)
(* format extension and what downloading its url does.  A subtitle payload *)
(* (srt, vtt) is a sequence of lines, each a sequence of characters.       *)
(***************************************************************************)
\* str.upper() of one character
UpperChar(ch) ==
    CASE ch = "b" -> "B" [] ch = "e" -> "E" [] ch = "o" -> "O"
      [] ch = "t" -> "T" [] ch = "u" -> "U" [] ch = "y" -> "Y"
      [] ch = "w" -> "W" [] ch = "v" -> "V"
      [] OTHER -> ch

Upper(s) == [i \in 1..Len(s) |-> UpperChar(s[i])]

\* str.isdigit()
IsDigit(s) == s # << >> /\ \A i \in 1..Len(s) : s[i] \in Digits

\* the loop of _parse_caption_payload over the lines of a subtitle payload
subtitle_lines(lines, extension) ==
    LET stripped == [i \in 1..Len(lines) |-> Strip(lines[i])]
        Kept(line) ==
            /\ line # << >>
            /\ ~Contains(line, <<"-", "-", ">">>)
            /\ ~(extension = "srt" /\ IsDigit(line))
            /\ ~StartsWith(Upper(line), <<"W", "E", "B", "V", "T", "T">>)
    IN SelectSeq(stripped, Kept)

\* _parse_caption_payload: the text of a payload, << >> for None, or the
\* exception json.loads raises
_parse_caption_payload(payload, extension) ==
    IF payload.form = "blank"
    THEN Return(<< >>)
    ELSE IF extension = "json3"
    THEN IF payload.form = "notjson"
         THEN Raise("JSONDecodeError", "Expecting value")
         ELSE Return(json3_lines(payload.events))
    ELSE Return(subtitle_lines(payload.events, extension))

\* a subtitle payload: its lines are kept in the events field
Subtitle(lines) == [form |-> "lines", events |-> lines]

VttPayload ==
    Subtitle(<< <<"W", "E", "B", "V", "T", "T">>, << >>,
                <<"1", " ", "-", "-", ">", " ", "2">>, <<" ", "y", "o", " ">> >>)
SrtPayload ==
    Subtitle(<< <<"1">>, <<"1", " ", "-", "-", ">", " ", "2">>, <<"1", "2">>,
                <<"n", "o">> >>)

\* what reading a track's url does: a body, an HTTPError, a URLError, or a
\* socket timeout while reading (an OSError that is not a URLError)
Track(ext, response) == [ext |-> ext, response |-> response]
URLError == [kind |-> "URLError", code |-> 0, payload |-> BlankPayload]
ReadTimeout == [kind |-> "TimeoutError", code |-> 0, payload |-> BlankPayload]

Tracks ==
    {Track("json3", Body(p)) :
        p \in {BlankPayload, NotJsonPayload, Json3(<< << <<"h", "i">> >> >>)}}
    \cup {Track("vtt", Body(VttPayload)), Track("srt", Body(SrtPayload)),
          Track("vtt", HTTPError(404)), Track("vtt", HTTPError(403)),
          Track("vtt", HTTPError(500)), Track("vtt", URLError),
          Track("vtt", ReadTimeout)}

RECURSIVE SeqsUpTo(_, _)
SeqsUpTo(S, n) ==
    IF n = 0 THEN {<< >>}
    ELSE LET shorter == SeqsUpTo(S, n - 1)
         IN shorter \cup {Append(q, x) : q \in {r \in shorter : Len(r) = n - 1}, x \in S}

\* the downloader is not installed, extract_info raises, or it returns the
\* candidate tracks in discovery order
YtDlpBehaviours ==
    {[kind |-> k, tracks |-> << >>] : k \in {"ImportError", "DownloadError"}}
    \cup {[kind |-> "info", tracks |-> t] : t \in SeqsUpTo(Tracks, MaxTracks)}

\* the loop of _fetch_with_yt_dlp over the candidates from number k on
RECURSIVE YtDlpFrom(_, _)
YtDlpFrom(tracks, k) ==
    IF k > Len(tracks)
    THEN Raise("TranscriptNotAvailableError",
               "yt-dlp did not return usable caption tracks")
    ELSE LET response == tracks[k].response
             parsed == _parse_caption_payload(response.payload, tracks[k].ext)
         IN IF response.kind = "HTTPError"
            THEN IF response.code \in {403, 404}
                 THEN YtDlpFrom(tracks, k + 1)
                 ELSE Raise("TranscriptDownloadError",
                            "HTTP error downloading yt-dlp captions")
            ELSE IF response.kind = "URLError"
            THEN Raise("TranscriptDownloadError",
                       "Network error downloading yt-dlp captions")
            ELSE IF response.kind # "body"
            THEN Raise(response.kind, "timed out")
            ELSE IF parsed.kind = "raise" \/ parsed.value # << >>
            THEN parsed
            ELSE YtDlpFrom(tracks, k + 1)

_fetch_with_yt_dlp(b) ==
    IF b.kind = "ImportError"
    THEN Raise("TranscriptDownloadError", "yt-dlp is not installed")
    ELSE IF b.kind # "info"
    THEN Raise(b.kind, "extract_info failed")
    ELSE YtDlpFrom(b.tracks, 1)

(***************************************************************************)
(* fetch_transcript: the fallback chain.  outs[k] is what strategy k does  *)
(* when it is invoked; the chain reports the strategies it invoked, in     *)
(* order, and what it returns or raises.                                   *)
(***************************************************************************)
strategies ==
    <<"_fetch_with_timedtext", "_fetch_with_youtube_transcript_api",
      "_fetch_with_yt_dlp">>

\* last_error = None
NoError == [kind |-> "none", value |-> << >>, type |-> "", msg |-> ""]

\* aggregate without the branch that re-raises a not-available error
aggregate_always_download_error(last_error) ==
    IF last_error # NoError
    THEN Raise("TranscriptDownloadError", last_error.msg)
    ELSE Raise("TranscriptDownloadError", "Unable to fetch transcript for unknown reasons")

\* the statements after the loop: what the chain raises for last_error
aggregate(last_error) ==
    IF last_error # NoError /\ isinstance(last_error.type, "TranscriptNotAvailableError")
    THEN last_error
    ELSE IF last_error # NoError
    THEN Raise("TranscriptDownloadError", last_error.msg)
    ELSE Raise("TranscriptDownloadError", "Unable to fetch transcript for unknown reasons")

\* does the try statement of the loop catch an exception of this type
caught(type) ==
    \/ isinstance(type, "TranscriptNotAvailableError")
    \/ isinstance(type, "TranscriptDownloadError")

\* the loop without its return: a later strategy that succeeds is invoked
\* too and its transcript replaces the earlier one
RECURSIVE ChainFromNoReturn(_, _, _)
ChainFromNoReturn(outs, k, last_error) ==
    IF k > Len(strategies)
    THEN [calls |-> << >>, result |-> aggregate(last_error)]
    ELSE LET rest == ChainFromNoReturn(outs, k + 1,
                                       IF outs[k].kind = "raise" THEN outs[k] ELSE last_error)
         IN IF outs[k].kind = "raise" /\ caught(outs[k].type)
            THEN [calls |-> <<strategies[k]>> \o rest.calls, result |-> rest.result]
            ELSE IF outs[k].kind = "return" /\ rest.result.kind = "return"
            THEN [calls |-> <<strategies[k]>> \o rest.calls, result |-> rest.result]
            ELSE [calls |-> <<strategies[k]>>, result |-> outs[k]]

\* the loop keeping the first error in last_error instead of the last one
RECURSIVE ChainFromFirstError(_, _, _)
ChainFromFirstError(outs, k, last_error) ==
    IF k > Len(strategies)
    THEN [calls |-> << >>, result |-> aggregate(last_error)]
    ELSE LET rest == ChainFromFirstError(outs, k + 1,
                                         IF last_error = NoError THEN outs[k] ELSE last_error)
         IN IF outs[k].kind = "raise" /\ caught(outs[k].type)
            THEN [calls |-> <<strategies[k]>> \o rest.calls, result |-> rest.result]
            ELSE [calls |-> <<strategies[k]>>, result |-> outs[k]]

\* the loop over the strategies from number k on
RECURSIVE ChainFrom(_, _, _)
ChainFrom(outs, k, last_error) ==
    IF k > Len(strategies)
    THEN [calls |-> << >>, result |-> aggregate(last_error)]
    ELSE LET rest == ChainFrom(outs, k + 1, outs[k])
         IN IF outs[k].kind = "raise" /\ caught(outs[k].type)
            THEN [calls |-> <<strategies[k]>> \o rest.calls, result |-> rest.result]
            ELSE [calls |-> <<strategies[k]>>, result |-> outs[k]]

fetch_transcript(outs) == ChainFrom(outs, 1, NoError)

(***************************************************************************)
(* What the external collaborators can make each strategy do.              *)
(***************************************************************************)
TimedtextBehaviours == [1..Len(LANGUAGE_CANDIDATES) -> TimedtextResponses]

TimedtextOutcomes == {_fetch_with_timedtext(b).result : b \in TimedtextBehaviours}
ApiOutcomes == {_fetch_with_youtube_transcript_api(b) : b \in ApiBehaviours}
YtDlpOutcomes == {_fetch_with_yt_dlp(b) : b \in YtDlpBehaviours}

(***************************************************************************)
(* The batch driver.                                                       *)
(***************************************************************************)
VARIABLES
    lines,      \* the input file: its lines, each a sequence of characters
    pos,        \* the number of lines read_video_ids has consumed
    status,     \* "running", "done" (run returned) or the exception run raised
    files,      \* the output directory: file name -> content
    writes,     \* the file names written during this run, in order
    last,       \* the last call of fetch_transcript in this run
    runs,       \* the number of runs started on this output directory
    script,     \* what the three strategies do, when fixed in advance
    raw,        \* the resolver's argument, as text and as its parts
    resolved,   \* the resolver's result
    responses,  \* the timedtext endpoint's answers, one per language
    timedtext   \* the result of _fetch_with_timedtext

vars == <<lines, pos, status, files, writes, last, runs, script, raw, resolved,
          responses, timedtext>>

HTTPS == <<"h", "t", "t", "p", "s", ":", "/", "/">>
ShortHost == <<"y", "o", "u", "t", "u", ".", "b", "e">>
WatchHost == <<"w", "w", "w", ".", "y", "o", "u", "t", "u", "b", "e", ".", "c", "o", "m">>

IdA == Rep("a", 10)
IdB == <<"b", "_", "1">>

\* the lines an input file is made of
InputLines ==
    {<<" ">>, <<" ", "#", "a">>, IdA, HTTPS \o ShortHost \o <<"/">> \o IdA,
     HTTPS \o WatchHost \o <<"/", "w", "?", "v", "=">> \o IdB, <<"b", "a", "d">>}

TxtName(video_id) == [id |-> video_id, ext |-> "txt"]
ErrorName(video_id) == [id |-> video_id, ext |-> "error.json"]

NoFetch == [video_id |-> << >>, calls |-> << >>, result |-> NoError]

\* read_video_ids: is this line skipped
Skipped(line) == Strip(line) = << >> \/ StartsWith(Strip(line), <<"#">>)

\* the number of the next line read_video_ids yields for, 0 when none is left
NextLine ==
    LET rest == {i \in (pos + 1)..Len(lines) : ~Skipped(lines[i])}
    IN IF rest = {} THEN 0 ELSE CHOOSE i \in rest : \A j \in rest : i <= j

\* save_transcript
save_transcript(video_id, transcript) ==
    /\ files' = (TxtName(video_id) :> transcript) @@ files
    /\ writes' = Append(writes, TxtName(video_id))

\* save_error
save_error(video_id, error) ==
    /\ files' = (ErrorName(video_id) :>
                    [video_id |-> video_id, error_type |-> error.type,
                     message |-> error.msg]) @@ files
    /\ writes' = Append(writes, ErrorName(video_id))

\* read_video_ids raises the resolver's ValueError, which run lets through
ResolveFails ==
    /\ status = "running"
    /\ \E n \in {NextLine} :
          /\ n # 0
          /\ ~extract_video_id(lines[n]).ok
          /\ pos' = n
    /\ status' = "ValueError"
    /\ UNCHANGED <<lines, files, writes, last, runs>>

\* the body of the loop of run for video_id: fetch_transcript, then the
\* except or the else branch; any other exception leaves run
Fetch(video_id, outs) ==
    \E chain \in {fetch_transcript(outs)} :
       /\ last' = [video_id |-> video_id, calls |-> chain.calls,
                   result |-> chain.result]
       /\ IF chain.result.kind = "return"
          THEN save_transcript(video_id, chain.result.value) /\ UNCHANGED status
          ELSE IF isinstance(chain.result.type, "TranscriptDownloadError")
          THEN save_error(video_id, chain.result) /\ UNCHANGED status
          ELSE status' = chain.result.type /\ UNCHANGED <<files, writes>>

\* one iteration of the loop of run, whatever the collaborators do
Iteration ==
    /\ status = "running"
    /\ \E n \in {NextLine} :
          /\ n # 0
          /\ pos' = n
          /\ \E r \in {extract_video_id(lines[n])} :
                /\ r.ok
                /\ \E o1 \in TimedtextOutcomes, o2 \in ApiOutcomes, o3 \in YtDlpOutcomes :
                      Fetch(r.id, <<o1, o2, o3>>)
    /\ UNCHANGED <<lines, runs>>

\* read_video_ids is exhausted: run returns
Finish ==
    /\ status = "running"
    /\ NextLine = 0
    /\ pos' = Len(lines)
    /\ status' = "done"
    /\ UNCHANGED <<lines, files, writes, last, runs>>

\* the script is run again on the same input file and output directory
Rerun ==
    /\ status # "running"
    /\ runs < MaxRuns
    /\ runs' = runs + 1
    /\ pos' = 0
    /\ status' = "running"
    /\ writes' = << >>
    /\ last' = NoFetch
    /\ UNCHANGED <<lines, files>>

\* the variables a specification does not use
NoDriver ==
    /\ lines = << >> /\ pos = 0 /\ status = "done" /\ files = << >>
    /\ writes = << >> /\ last = NoFetch /\ runs = 1
NoScript == script = << >>
NoResolver == raw = << >> /\ resolved = ValueError("")
NoTimedtext == responses = << >> /\ timedtext = [result |-> NoError, requests |-> << >>]
NotResolved == [ok |-> FALSE, id |-> << >>, error |-> "not called"]

Init ==
    /\ lines \in SeqsUpTo(InputLines, MaxLines)
    /\ pos = 0
    /\ status = "running"
    /\ files = << >>
    /\ writes = << >>
    /\ last = NoFetch
    /\ runs = 1
    /\ NoScript /\ NoResolver /\ NoTimedtext

Next ==
    \/ ResolveFails /\ UNCHANGED <<script, raw, resolved, responses, timedtext>>
    \/ Iteration /\ UNCHANGED <<script, raw, resolved, responses, timedtext>>
    \/ Finish /\ UNCHANGED <<script, raw, resolved, responses, timedtext>>
    \/ Rerun /\ UNCHANGED <<script, raw, resolved, responses, timedtext>>

Spec == Init /\ [][Next]_vars

(***************************************************************************)
(* The chain on one identifier, with the strategies' behaviour fixed in    *)
(* advance: an input file of one line, processed once.                     *)
(***************************************************************************)
ScriptedIteration ==
    /\ status = "running"
    /\ \E n \in {NextLine} :
          /\ n # 0
          /\ pos' = n
          /\ \E r \in {extract_video_id(lines[n])} : r.ok /\ Fetch(r.id, script)
    /\ UNCHANGED <<lines, runs>>

ScriptedInit ==
    /\ lines \in {<<line>> : line \in {l \in InputLines : extract_video_id(l).ok}}
    /\ script \in TimedtextOutcomes \X ApiOutcomes \X YtDlpOutcomes
    /\ pos = 0
    /\ status = "running"
    /\ files = << >>
    /\ writes = << >>
    /\ last = NoFetch
    /\ runs = 1
    /\ NoResolver /\ NoTimedtext

ScriptedNext ==
    \/ ScriptedIteration /\ UNCHANGED <<script, raw, resolved, responses, timedtext>>
    \/ Finish /\ UNCHANGED <<script, raw, resolved, responses, timedtext>>

ScriptedSpec == ScriptedInit /\ [][ScriptedNext]_vars

(***************************************************************************)
(* Strategy 1 alone, for every way the endpoint answers the languages.     *)
(***************************************************************************)
NotFetched == [result |-> NoError, requests |-> << >>]

CallTimedtext ==
    /\ timedtext = NotFetched
    /\ timedtext' = _fetch_with_timedtext(responses)
    /\ UNCHANGED <<lines, pos, status, files, writes, last, runs, script, raw,
                   resolved, responses>>

TimedtextInit ==
    /\ responses \in TimedtextBehaviours
    /\ timedtext = NotFetched
    /\ NoDriver /\ NoScript /\ NoResolver

TimedtextSpec == TimedtextInit /\ [][CallTimedtext]_vars

(***************************************************************************)
(* The resolver alone.  An argument is built from its parts, which are     *)
(* kept beside its text: leading and trailing blanks, then either a bare   *)
(* string or a URL made of a prefix (scheme and slashes), a host (with     *)
(* optional user info and port), a path, a query and a fragment.           *)
(***************************************************************************)
Absent == <<"absent">>

\* bare strings: identifier-shaped ones around both ends of the length range,
\* and strings with a character an identifier cannot hold
BareStrings ==
    {Rep(ch, n) : ch \in {"a", "1", "-", "_", "Y"}, n \in {1, 9, 10, 11, 18, 19, 20, 21}}
    \cup {Rep("a", n) \o <<ch>> \o Rep("b", 2) :
            n \in {6, 7, 8, 16, 17}, ch \in {".", "/", " ", "?", "=", "_"}}

UrlPrefixes ==
    {[text |-> HTTPS, netloc |-> TRUE],
     [text |-> <<"h", "t", "t", "p", ":", "/", "/">>, netloc |-> TRUE],
     [text |-> <<"H", "T", "T", "P", "S", ":", "/", "/">>, netloc |-> TRUE],
     [text |-> <<"/", "/">>, netloc |-> TRUE],
     [text |-> << >>, netloc |-> FALSE],
     [text |-> <<"h", "t", "t", "p", "s", ":">>, netloc |-> FALSE]}

\* host: the text of the netloc and the host name in it
UrlHosts ==
    {[text |-> ShortHost, host |-> ShortHost],
     [text |-> <<"Y", "O", "U", "T", "U", ".", "B", "E">>, host |-> ShortHost],
     [text |-> ShortHost \o <<":", "5">>, host |-> ShortHost],
     [text |-> <<"w", "w", "w", ".">> \o ShortHost,
      host |-> <<"w", "w", "w", ".">> \o ShortHost],
     [text |-> WatchHost, host |-> WatchHost],
     [text |-> <<"u", "@">> \o WatchHost \o <<":", "5">>, host |-> WatchHost],
     [text |-> <<"m", ".", "y", "o", "u", "t", "u", "b", "e", ".", "d", "e">>,
      host |-> <<"m", ".", "y", "o", "u", "t", "u", "b", "e", ".", "d", "e">>],
     [text |-> <<"e", "x", ".", "c", "o", "m">>, host |-> <<"e", "x", ".", "c", "o", "m">>],
     [text |-> << >>, host |-> << >>]}

\* path: its text and the path with its leading slashes removed
UrlPaths ==
    {[text |-> << >>, segment |-> << >>],
     [text |-> <<"/">>, segment |-> << >>],
     [text |-> <<"/", "w">>, segment |-> <<"w">>],
     [text |-> <<"/", "a", "b", "/", "1">>, segment |-> <<"a", "b", "/", "1">>],
     [text |-> <<"/", "/", "a", "b">>, segment |-> <<"a", "b">>]}

\* query: its text (Absent: no '?') and the value of its first non-blank
\* parameter v, decoded (Absent: there is none)
UrlQueries ==
    {[text |-> Absent, v |-> Absent],
     [text |-> << >>, v |-> Absent],
     [text |-> <<"v", "=", "a", "b", "1">>, v |-> <<"a", "b", "1">>],
     [text |-> <<"t", "=", "1", "&", "v", "=", "a", "b", "1">>, v |-> <<"a", "b", "1">>],
     [text |-> <<"v", "=", "a", "b", "1", "&", "v", "=", "x">>, v |-> <<"a", "b", "1">>],
     [text |-> <<"v", "=", "a", "%", "2", "D", "b", "+", "c">>,
      v |-> <<"a", "-", "b", " ", "c">>],
     [text |-> <<"v", "=", "a", "=", "b">>, v |-> <<"a", "=", "b">>],
     [text |-> <<"v", "=">>, v |-> Absent],
     [text |-> <<"v">>, v |-> Absent],
     [text |-> <<"v", "v", "=", "a", "b", "1">>, v |-> Absent],
     [text |-> <<"t", "=", "v">>, v |-> Absent]}

UrlFragments == {Absent, <<"v", "=", "z">>}

Pads == {[left |-> << >>, right |-> << >>], [left |-> <<" ">>, right |-> <<" ", " ">>]}

Opt(mark, text) == IF text = Absent THEN << >> ELSE <<mark>> \o text

BareInputs ==
    {[text |-> pad.left \o b \o pad.right,
      parts |-> [form |-> "bare", bare |-> b, netloc |-> FALSE, host |-> << >>,
                 segment |-> << >>, v |-> Absent]] :
        b \in BareStrings, pad \in Pads}

UrlInputs ==
    {[text |-> pad.left \o prefix.text \o host.text \o path.text
                \o Opt("?", query.text) \o Opt("#", fragment) \o pad.right,
      parts |-> [form |-> "url", bare |-> << >>, netloc |-> prefix.netloc,
                 host |-> host.host, segment |-> path.segment, v |-> query.v]] :
        pad \in Pads, prefix \in UrlPrefixes, host \in UrlHosts, path \in UrlPaths,
        query \in UrlQueries, fragment \in UrlFragments}

ResolverInputs == BareInputs \cup UrlInputs

Resolve ==
    /\ resolved = NotResolved
    /\ resolved' = extract_video_id(raw.text)
    /\ UNCHANGED <<lines, pos, status, files, writes, last, runs, script, raw,
                   responses, timedtext>>

ResolverInit ==
    /\ raw \in ResolverInputs
    /\ resolved = NotResolved
    /\ NoDriver /\ NoScript /\ NoTimedtext

ResolverSpec == ResolverInit /\ [][Resolve]_vars

(***************************************************************************)
(* Properties.                                                             *)
(***************************************************************************)
NotAvailable(o) == o.kind = "raise" /\ o.type = "TranscriptNotAvailableError"
DownloadFailure(o) == o.kind = "raise" /\ o.type = "TranscriptDownloadError"
Classified(o) == NotAvailable(o) \/ DownloadFailure(o)

\* the identifiers read_video_ids has yielded so far in this run, in order
RECURSIVE YieldedUpTo(_)
YieldedUpTo(n) ==
    IF n = 0 THEN << >>
    ELSE IF Skipped(lines[n]) \/ ~extract_video_id(lines[n]).ok
    THEN YieldedUpTo(n - 1)
    ELSE Append(YieldedUpTo(n - 1), extract_video_id(lines[n]).id)

Range(f) == {f[i] : i \in DOMAIN f}

WritesFor(video_id) == {i \in 1..Len(writes) : writes[i].id = video_id}

\* C1: when a run of the batch driver has ended, every identifier resolved
\* from the input during the run has exactly one output (a transcript or a
\* failure record) written during that run: never none, never two.
C1_ExactlyOneOutput ==
    status # "running" =>
        \A video_id \in Range(YieldedUpTo(pos)) :
            Cardinality(WritesFor(video_id)) = 1

\* C2: in every state of the output directory no identifier has both its
\* transcript file and its error file.
C2_NeverBothArtifacts ==
    \A name \in DOMAIN files :
        ~(TxtName(name.id) \in DOMAIN files /\ ErrorName(name.id) \in DOMAIN files)

\* did the fetch of the k-th identifier of this run fail: its error file was
\* written, or run ended with the exception it raised
FetchFailed(k) ==
    \/ k <= Len(writes) /\ writes[k].ext = "error.json"
    \/ k = Len(writes) + 1 /\ status \notin {"running", "done"}

\* C3: for an input whose lines all resolve to identifiers i1..in, when the
\* run has ended (it returned or it raised) and the fetch of some ik failed
\* in whatever way, every later identifier has been processed in file order
\* and has its artifact written.
C3_FailureNeverAborts ==
    (/\ status # "running"
     /\ \A i \in 1..Len(lines) : Skipped(lines[i]) \/ extract_video_id(lines[i]).ok)
    => LET ids == YieldedUpTo(Len(lines))
       IN \A k \in 1..Len(ids) :
             FetchFailed(k) =>
                \A i \in (k + 1)..Len(ids) :
                    i <= Len(writes) /\ writes[i].id = ids[i]

\* the number of the first strategy of the script that returns, 0 if none
FirstSuccess ==
    LET wins == {k \in 1..Len(script) : script[k].kind = "return"}
    IN IF wins = {} THEN 0 ELSE CHOOSE k \in wins : \A j \in wins : k <= j

\* C4: the chain invokes timedtext, then the transcript library, then the
\* downloader; a strategy is invoked only if every strategy before it
\* failed, nothing is invoked after the first strategy that returns a
\* transcript, and the chain returns that strategy's transcript.
C4_ChainShortCircuits ==
    last # NoFetch =>
        /\ Len(last.calls) \in 1..3
        /\ last.calls = SubSeq(<<"_fetch_with_timedtext",
                                 "_fetch_with_youtube_transcript_api",
                                 "_fetch_with_yt_dlp">>, 1, Len(last.calls))
        /\ \A k \in 2..Len(last.calls) : \A j \in 1..(k - 1) : script[j].kind = "raise"
        /\ script[1].kind = "return" => Len(last.calls) = 1
        /\ FirstSuccess # 0 /\ last.result.kind = "return" =>
              /\ Len(last.calls) = FirstSuccess
              /\ last.result.value = script[FirstSuccess].value
        /\ last.result.kind = "return" => FirstSuccess # 0 /\ last.result.value # << >>

\* C4 witness: strategy 1 failed, strategy 2 returned a transcript, strategy
\* 3 would have returned another one and was not invoked.
C4_Witness ==
    /\ last # NoFetch
    /\ script[1].kind = "raise" /\ script[2].kind = "return" /\ script[3].kind = "return"
    /\ script[3].value # script[2].value
    /\ Len(last.calls) = 2
    /\ last.result = script[2]

\* C5: if all three strategies report not-available, the chain raises
\* not-available, and the driver writes the identifier's error file with
\* that classification as error_type and no transcript file.
C5_AllNotAvailable ==
    (last # NoFetch /\ \A k \in 1..3 : NotAvailable(script[k])) =>
        /\ NotAvailable(last.result)
        /\ writes = <<ErrorName(last.video_id)>>
        /\ DOMAIN files = {ErrorName(last.video_id)}
        /\ files[ErrorName(last.video_id)].error_type = "TranscriptNotAvailableError"
        /\ files[ErrorName(last.video_id)].video_id = last.video_id

\* C5 witness: the three strategies reported not-available and the error
\* file is written.
C5_Witness ==
    /\ last # NoFetch
    /\ \A k \in 1..3 : NotAvailable(script[k])
    /\ ErrorName(last.video_id) \in DOMAIN files
    /\ status = "done"

\* C6: when strategy 1 receives a payload that is not JSON, the chain goes on
\* to strategy 2, and if no strategy succeeds the identifier gets an error
\* file.
C6_ParseErrorIsDownloadFailure ==
    (/\ last # NoFetch
     /\ script[1].kind = "raise"
     /\ script[1].type = "JSONDecodeError") =>
        /\ Len(last.calls) >= 2
        /\ last.result.kind = "return" \/ ErrorName(last.video_id) \in DOMAIN files

\* C7: when no strategy succeeds and a not-available result of a later
\* strategy follows a download failure of an earlier one, the chain raises
\* not-available.
C7_NotAvailableWins ==
    (/\ last # NoFetch
     /\ \A k \in 1..3 : Classified(script[k])
     /\ \E i \in 1..3, j \in 1..3 :
           i < j /\ DownloadFailure(script[i]) /\ NotAvailable(script[j])) =>
        NotAvailable(last.result)

\* C10: when all three strategies fail with a classified error, the chain
\* raises an error of the class of strategy 3's error with its message
\* unchanged, and the error file carries that class and that message.
C10_LastErrorWins ==
    (last # NoFetch /\ \A k \in 1..3 : Classified(script[k])) =>
        /\ last.result.kind = "raise"
        /\ last.result.type = script[3].type
        /\ last.result.msg = script[3].msg
        /\ files = (ErrorName(last.video_id) :>
                        [video_id |-> last.video_id, error_type |-> script[3].type,
                         message |-> script[3].msg])

\* C10 witness: strategies 1 and 2 failed in other ways than strategy 3, and
\* the error file is written.
C10_Witness ==
    /\ last # NoFetch
    /\ NotAvailable(script[1]) /\ NotAvailable(script[2]) /\ DownloadFailure(script[3])
    /\ script[3].msg = "Network error downloading yt-dlp captions"
    /\ ErrorName(last.video_id) \in DOMAIN files

\* the resolver rule, on the parts of an argument
ResolverRule(parts) ==
    IF parts.form = "bare"
    THEN IF /\ Len(parts.bare) >= 10
            /\ Len(parts.bare) <= 19
            /\ Range(parts.bare) \subseteq IdChars
         THEN Resolved(parts.bare)
         ELSE ValueError("unrecognised")
    ELSE IF parts.netloc /\ parts.host = ShortHost
    THEN IF parts.segment = << >> THEN ValueError("short") ELSE Resolved(parts.segment)
    ELSE IF parts.netloc /\ Contains(parts.host, <<"y", "o", "u", "t", "u", "b", "e">>)
    THEN IF parts.v = Absent THEN ValueError("unrecognised") ELSE Resolved(parts.v)
    ELSE ValueError("unrecognised")

\* C8: for a non-empty trimmed argument the resolver follows the rule: an
\* identifier-shaped string (identifier characters only, length 10 to 19) is
\* returned unchanged; otherwise a URL whose host is the short-link domain
\* gives its path without the leading slashes (an error if that is empty);
\* otherwise a URL whose host contains the platform domain gives the decoded
\* value of its first non-blank v parameter (an error if there is none);
\* everything else is an error.
C8_ResolverRule ==
    (resolved # NotResolved /\ Strip(raw.text) # << >>) =>
        resolved = ResolverRule(raw.parts)

\* C8 witness: a watch URL with a port, user info and two parameters has
\* been resolved to the value of v.
C8_Witness ==
    /\ resolved = Resolved(<<"a", "b", "1">>)
    /\ raw.parts.host = WatchHost
    /\ Contains(raw.text, <<"t", "=", "1", "&", "v", "=">>)
    /\ Contains(raw.text, <<"@">>)

\* is language number k unavailable: a 403 or 404, a blank payload, or a
\* document without text
Unavailable(k) ==
    \/ responses[k].kind = "HTTPError" /\ responses[k].code \in {403, 404}
    \/ /\ responses[k].kind = "body"
       /\ responses[k].payload.form \in {"blank", "json3"}
       /\ \A e \in 1..Len(responses[k].payload.events) :
             \A g \in 1..Len(responses[k].payload.events[e]) :
                responses[k].payload.events[e][g] = << >>

HasText(k) ==
    /\ responses[k].kind = "body"
    /\ responses[k].payload.form = "json3"
    /\ ~Unavailable(k)

Fatal(k) ==
    \/ responses[k].kind = "HTTPError" /\ responses[k].code \notin {403, 404}
    \/ responses[k].kind = "OSError"

\* the number of the first language that is not unavailable, 4 if none
FirstStop ==
    LET stops == {k \in 1..3 : ~Unavailable(k)}
    IN IF stops = {} THEN 4 ELSE CHOOSE k \in stops : \A j \in stops : k <= j

====
